---- MODULE Spec2Model ----
(***************************************************************************)
(* Model of the submission processing pipeline of                          *)
(* src/src/services/submissionService.ts (SubmissionService) together with *)
(* the persisted submissions table and the submission_analytics sink.      *)
(*                                                                         *)
(* One "attempt" is one invocation of processSubmission(submission).  The  *)
(* argument object is a snapshot: the attempt reads retry_count and        *)
(* processing_log from the object it was handed, never from the database.  *)
(* Every await of the method is a separate step, so attempts interleave.   *)
(***************************************************************************)
EXTENDS Integers, Sequences, FiniteSets, Bags, TLC

\* ---------------------------------------------------------------- bounds
MaxAttempts == 4          \* invocations of processSubmission in one run
MaxInFlight == 2          \* invocations that have not settled yet
MaxClock == 7000          \* last clock value (ms) the model explores
MaxAttemptsTwo == 3       \* invocations in one run with two submissions
MaxValidationClock == 2   \* last clock value of the runs of the validation engine
MaxFaults == 1            \* adverse events in one run: a persistence call or an
                          \* analytics insert that fails, or an invocation that
                          \* does not follow the recorded retry schedule
SubOrder == <<"s1", "s2">>  \* submission ids, in order of creation

\* ------------------------------------------------------ program constants
retryDelays == <<1000, 2000, 4000, 8000, 16000>>
maxRetries == 3

\* ------------------------------------------------------------ text helpers
Upper == <<"A","B","C","D","E","F","G","H","I","J","K","L","M",
           "N","O","P","Q","R","S","T","U","V","W","X","Y","Z">>
Lower == <<"a","b","c","d","e","f","g","h","i","j","k","l","m",
           "n","o","p","q","r","s","t","u","v","w","x","y","z">>

ToLowerChar(c) ==
  IF \E i \in 1..Len(Upper) : Upper[i] = c
    THEN Lower[CHOOSE i \in 1..Len(Upper) : Upper[i] = c]
    ELSE c

\* toLowerCase leaving every character as it is
toLowerCase_Identity(s) == s

toLowerCase(s) == [i \in 1..Len(s) |-> ToLowerChar(s[i])]

includes(hay, needle) ==
  \E i \in 1..(Len(hay) - Len(needle) + 1) :
     SubSeq(hay, i, i + Len(needle) - 1) = needle

crisisKeywords == <<
  <<"e","m","e","r","g","e","n","c","y">>,
  <<"u","r","g","e","n","t">>,
  <<"c","r","i","s","i","s">>,
  <<"h","e","l","p">>,
  <<"d","a","n","g","e","r">>,
  <<"i","m","m","e","d","i","a","t","e">>,
  <<"c","r","i","t","i","c","a","l">>,
  <<"s","e","r","i","o","u","s">>,
  <<"t","h","r","e","a","t">>,
  <<"v","i","o","l","e","n","c","e">>,
  <<"a","b","u","s","e">>,
  <<"a","t","t","a","c","k">> >>

detectCrisisIndicators(content) ==
  LET lowercaseContent == toLowerCase(content)
  IN  \E k \in 1..Len(crisisKeywords) : includes(lowercaseContent, crisisKeywords[k])

\* [content, transcribedContent].filter(Boolean).join('\n\n')
combinedContentOf(content, transcribedContent) ==
  IF content = <<>> THEN transcribedContent
  ELSE IF transcribedContent = <<>> THEN content
  ELSE content \o <<"\n", "\n">> \o transcribedContent

\* ------------------------------------------------------ validation engine
\* Values of the submission data as the rules see them.  A text field is
\* described by what the rules ask of it: its length (Undefined when the field
\* is absent), whether trim() leaves nothing, whether it has a run of eleven or
\* more equal characters, and whether it includes "test".  Numbers and dates
\* are integers, Undefined when absent; confidences are in hundredths.
Undefined == -1

NoText == [len |-> Undefined, blank |-> TRUE, repeated |-> FALSE, test |-> FALSE]

Truthy(text) == text.len > 0

NoSuggestion == -1

Error(field, code, canOverride, suggestion) ==
  [field |-> field, code |-> code, canOverride |-> canOverride, suggestion |-> suggestion]

Warning(field, code, about) == [field |-> field, code |-> code, about |-> about]

Returned(errors, warnings, confidence) ==
  [threw |-> FALSE, isValid |-> (Len(errors) = 0), errors |-> errors,
   warnings |-> warnings, confidence |-> confidence]

Threw == [threw |-> TRUE, isValid |-> FALSE, errors |-> <<>>, warnings |-> <<>>, confidence |-> 0]

\* !data[field] || (typeof data[field] === 'string' && !data[field].trim())
MissingText(text) == ~Truthy(text) \/ text.blank
MissingString(str) == str = ""

validateRequiredFields(data) ==
  Returned(
    (IF MissingText(data.content)
       THEN <<Error("content", "required_field", FALSE, NoSuggestion)>> ELSE <<>>)
    \o (IF MissingString(data.privacy_level)
       THEN <<Error("privacy_level", "required_field", FALSE, NoSuggestion)>> ELSE <<>>)
    \o (IF MissingString(data.partner_id)
       THEN <<Error("partner_id", "required_field", FALSE, NoSuggestion)>> ELSE <<>>),
    <<>>, 100)

\* (x || 0) of a count
OrZero(x) == IF x = Undefined THEN 0 ELSE x

validateSurvivorCounts(data) ==
  IF data.new_survivors # Undefined /\ data.existing_survivors # Undefined
       /\ data.total_survivors # Undefined
    THEN LET calculatedTotal == OrZero(data.new_survivors) + OrZero(data.existing_survivors)
         IN  Returned(
               IF calculatedTotal # data.total_survivors
                 THEN <<Error("total_survivors", "survivor_count_mismatch", TRUE, calculatedTotal)>>
                 ELSE <<>>,
               IF data.new_survivors > 100
                 THEN <<Warning("new_survivors", "large_survivor_count", "")>>
                 ELSE <<>>,
               95)
    ELSE Returned(<<>>, <<>>, 95)

\* the date fields of dateFields that the inputs set, then the date sequence
validateDateRanges(data, clock) ==
  Returned(
    (IF data.report_date # Undefined /\ data.report_date > clock
       THEN <<Error("report_date", "future_date", TRUE, NoSuggestion)>> ELSE <<>>)
    \o (IF data.start_date # Undefined /\ data.end_date # Undefined
            /\ data.end_date <= data.start_date
       THEN <<Error("end_date", "date_sequence_error", FALSE, NoSuggestion)>> ELSE <<>>),
    <<>>, 98)

limits == <<[field |-> "content", limit |-> 10000], [field |-> "title", limit |-> 200],
            [field |-> "description", limit |-> 1000], [field |-> "notes", limit |-> 5000]>>

\* length > limit: error; else length > limit * 0.9: warning
LimitErrors(text, field, limit) ==
  IF Truthy(text) /\ text.len > limit
    THEN <<Error(field, "character_limit_exceeded", TRUE, NoSuggestion)>> ELSE <<>>

LimitWarnings(text, field, limit) ==
  IF Truthy(text) /\ ~(text.len > limit) /\ 10 * text.len > 9 * limit
    THEN <<Warning(field, "approaching_character_limit", "")>> ELSE <<>>

validateCharacterLimits(data) ==
  Returned(
    LimitErrors(data.content, limits[1].field, limits[1].limit)
      \o LimitErrors(data.title, limits[2].field, limits[2].limit)
      \o LimitErrors(data.description, limits[3].field, limits[3].limit)
      \o LimitErrors(data.notes, limits[4].field, limits[4].limit),
    LimitWarnings(data.content, limits[1].field, limits[1].limit)
      \o LimitWarnings(data.title, limits[2].field, limits[2].limit)
      \o LimitWarnings(data.description, limits[3].field, limits[3].limit)
      \o LimitWarnings(data.notes, limits[4].field, limits[4].limit),
    100)

\* always isValid: true, whatever the warnings
validateDataConsistency(data) ==
  [threw |-> FALSE, isValid |-> TRUE, errors |-> <<>>,
   warnings |->
     IF Truthy(data.content)
       THEN (IF data.content.repeated
               THEN <<Warning("content", "suspicious_data", "")>> ELSE <<>>)
            \o (IF data.content.len < 10 /\ data.submission_type = "crisis_report"
               THEN <<Warning("content", "insufficient_detail", "")>> ELSE <<>>)
       ELSE <<>>,
   confidence |-> 85]

validateDuplicates(data) ==
  [threw |-> FALSE, isValid |-> TRUE, errors |-> <<>>,
   warnings |-> IF Truthy(data.content) /\ data.content.test
                  THEN <<Warning("content", "potential_duplicate", "")>> ELSE <<>>,
   confidence |-> 80]

\* the validators a caller-supplied rule may carry: two that report an
\* overridable error each, one that throws
customFail(data) ==
  Returned(<<Error("custom", "custom_error", TRUE, NoSuggestion)>>, <<>>, 50)

customOther(data) ==
  Returned(<<Error("other", "custom_other", TRUE, NoSuggestion)>>, <<>>, 60)

\* rule.validator(data)
Run(validator, data, clock) ==
  CASE validator = "required_fields" -> validateRequiredFields(data)
    [] validator = "survivor_count_logic" -> validateSurvivorCounts(data)
    [] validator = "date_range" -> validateDateRanges(data, clock)
    [] validator = "character_limits" -> validateCharacterLimits(data)
    [] validator = "data_consistency" -> validateDataConsistency(data)
    [] validator = "duplicate_detection" -> validateDuplicates(data)
    [] validator = "custom_fail" -> customFail(data)
    [] validator = "custom_other" -> customOther(data)
    [] validator = "custom_throw" -> Threw

Rule(id, submissionTypes, validator, active) ==
  [id |-> id, name |-> id, active |-> active,
   submissionTypes |-> submissionTypes, validator |-> validator]

\* initializeDefaultRules: the registry after construction, in insertion order
DefaultRules == <<
  Rule("required_fields", {}, "required_fields", TRUE),
  Rule("survivor_count_logic", {"survivor_report", "monthly_report"}, "survivor_count_logic", TRUE),
  Rule("date_range", {}, "date_range", TRUE),
  Rule("character_limits", {}, "character_limits", TRUE),
  Rule("data_consistency", {}, "data_consistency", TRUE),
  Rule("duplicate_detection", {}, "duplicate_detection", TRUE) >>

\* Applies with the active flag ignored
Applies_IgnoringActive(rule, data) ==
  rule.submissionTypes = {} \/ data.submission_type \in rule.submissionTypes

\* if (!rule.active) continue; if (types.length > 0 && !types.includes(type)) continue
Applies(rule, data) ==
  /\ rule.active
  /\ rule.submissionTypes = {} \/ data.submission_type \in rule.submissionTypes

NoFindings == [errors |-> <<>>, warnings |-> <<>>, totalConfidence |-> 0, applicableRules |-> 0]

\* Caught with the exception turned into an error of the submission
Caught_AsError(acc, rule) ==
  [acc EXCEPT !.errors = Append(@, Error("system", "validation_rule_error", FALSE, NoSuggestion))]

\* catch (error): one warning that names the rule
Caught(acc, rule) ==
  [acc EXCEPT !.warnings = Append(@, Warning("system", "validation_rule_error", rule.name))]

\* Collected that stops taking errors once some rule has failed
Collected_ShortCircuit(acc, result) ==
  [errors |-> IF ~result.isValid /\ acc.errors = <<>> THEN result.errors ELSE acc.errors,
   warnings |-> IF ~result.isValid THEN acc.warnings \o result.warnings ELSE acc.warnings,
   totalConfidence |-> acc.totalConfidence + result.confidence,
   applicableRules |-> acc.applicableRules + 1]

\* if (!result.isValid) push errors and warnings; totalConfidence, applicableRules
Collected(acc, result) ==
  [errors |-> IF ~result.isValid THEN acc.errors \o result.errors ELSE acc.errors,
   warnings |-> IF ~result.isValid THEN acc.warnings \o result.warnings ELSE acc.warnings,
   totalConfidence |-> acc.totalConfidence + result.confidence,
   applicableRules |-> acc.applicableRules + 1]

\* for (const rule of this.rules.values()): the first n rules of the registry
RECURSIVE RuleLoop(_, _, _, _)
RuleLoop(registry, n, data, clock) ==
  IF n = 0 THEN NoFindings
  ELSE LET acc == RuleLoop(registry, n - 1, data, clock)
           rule == registry[n]
       IN  IF ~Applies(rule, data) THEN acc
           ELSE LET result == Run(rule.validator, data, clock)
                IN  IF result.threw THEN Caught(acc, rule) ELSE Collected(acc, result)

NoOverride == [registered |-> FALSE, expiresAt |-> Undefined]

\* Kept with the expiry of the override ignored
Kept_IgnoringExpiry(override, clock) == ~override.registered

\* !override || (override.expiresAt && new Date(override.expiresAt) < new Date())
Kept(override, clock) ==
  \/ ~override.registered
  \/ (override.expiresAt # Undefined /\ override.expiresAt < clock)

\* Confidence without the guard for the empty case
Confidence_NoDefault(totalConfidence, applicableRules) ==
  [num |-> totalConfidence, den |-> applicableRules]

\* applicableRules > 0 ? totalConfidence / applicableRules : 1.0, as a fraction
\* of hundredths
Confidence(totalConfidence, applicableRules) ==
  IF applicableRules > 0
    THEN [num |-> totalConfidence, den |-> applicableRules]
    ELSE [num |-> 100, den |-> 1]

\* Math.max(0, Math.min(1, confidence))
Clamp(c) ==
  IF c.num > 100 * c.den THEN [num |-> 100, den |-> 1]
  ELSE IF c.num < 0 THEN [num |-> 0, den |-> 1]
  ELSE c

\* IsValid that also counts the warnings
IsValid_CountingWarnings(filteredErrors, warnings) ==
  Len(filteredErrors) = 0 /\ Len(warnings) = 0

\* isValid: filteredErrors.length === 0
IsValid(filteredErrors, warnings) == Len(filteredErrors) = 0

FilterErrors(errors, registered, clock) ==
  SelectSeq(errors, LAMBDA e : Kept(registered[e.code], clock))

\* the value validateSubmission(data) resolves to
validateSubmission(registry, registered, clock, data) ==
  LET found == RuleLoop(registry, Len(registry), data, clock)
      filteredErrors == FilterErrors(found.errors, registered, clock)
  IN  [isValid |-> IsValid(filteredErrors, found.warnings),
       errors |-> filteredErrors,
       warnings |-> found.warnings,
       confidence |-> Clamp(Confidence(found.totalConfidence, found.applicableRules))]

\* ------------------------------------------------------------------ inputs
Subs == {SubOrder[i] : i \in 1..Len(SubOrder)}

\* data.content handed to createSubmission
Inputs == { <<"o","k">>, <<>> }

\* rows of the submissions table written by another client of the database:
\* createSubmission stores media_files = {urls}, so only such a row carries
\* media_files.audio
StoredRows == { [content |-> <<>>, hasAudio |-> TRUE, retry_count |-> 0] }

\* what the transcription collaborator may return (silence: no text)
Transcripts == { <<>>, <<"U","r","g","e","n","t">> }

DbOutcomes == {"ok", "error"}             \* result of a persistence call
SinkOutcomes == {"ok", "error", "throw"}  \* result of an analytics insert
Slots == 1..MaxInFlight

\* the event types getSubmissionAnalytics reads back; rows of the other
\* types are written and never read by the program
ReadEventTypes == {"submission_created", "processing_completed", "processing_failed"}

\* the event types whose rows the model counts: those read back, and the two
\* that signal a crisis or a scheduled retry
EventTypes == ReadEventTypes \cup {"crisis_detected", "processing_retry"}

VARIABLES
  db,         \* submissions table: one row per submission id
  att,        \* invocations of processSubmission that have not settled
  timers,     \* pending setTimeout callbacks
  now,        \* Date.now()
  analytics,  \* submission_analytics: number of rows per submission and event type
  cs,         \* state of the createSubmission call of each submission
  started,    \* invocations of processSubmission so far, per submission
  failures,   \* invocations that entered the catch block so far, per submission
  faults,     \* adverse events so far
  rules,      \* ValidationEngine.rules of defaultValidationEngine, in insertion order
  overrides,  \* ValidationEngine.overrides, by error code
  validated   \* the call of validateSubmission a client has just made: data, result

vars == <<db, att, timers, now, analytics, cs, started, failures, faults,
          rules, overrides, validated>>

\* the state of the validation engine and of its clients
engine == <<rules, overrides, validated>>

\* the state of the submission service
service == <<db, att, timers, analytics, cs, started, failures, faults>>

\* the codes of the errors the rules report
ErrorCodes == {"required_field", "survivor_count_mismatch", "future_date",
               "date_sequence_error", "character_limit_exceeded", "custom_error",
               "custom_other",
               "validation_rule_error"}

NotValidated == [called |-> FALSE]

NoRow == [exists |-> FALSE, content |-> <<>>, hasAudio |-> FALSE,
          processing_status |-> "none", retry_count |-> 0,
          next_retry_at |-> -1, processing_log |-> <<>>,
          processed |-> FALSE, translated |-> FALSE]

NoAttempt == [sub |-> "none", pc |-> "unused", origin |-> "none",
              retry_count |-> 0, processing_log |-> <<>>,
              error |-> "none", failedAt |-> -1, steps |-> <<>>,
              transcribedContent |-> <<>>, chain |-> 0, nth |-> 0,
              notBefore |-> -1, valid |-> TRUE]

FreeSlot == CHOOSE a \in Slots : att[a].pc = "unused" /\ \A b \in Slots : b < a => att[b].pc # "unused"

\* Awaits on the collaborators and on the analytics sink touch nothing that
\* another invocation reads, so they are not interleaving points: an
\* invocation that stands before such a step takes it before anything else
\* moves.  The persistence calls are the interleaving points.
LocalPcs == {"transcribe", "log_transcribed", "translate", "log_translated",
             "log_crisis", "log_completed", "log_retry", "log_failed"}
Busy == (\E a \in Slots : att[a].pc \in LocalPcs) \/ (\E s \in Subs : cs[s] = "logging")

RECURSIVE SumOver(_, _)
SumOver(f, S) == IF S = {} THEN 0
                 ELSE LET x == CHOOSE y \in S : TRUE IN f[x] + SumOver(f, S \ {x})

CanStart == ~Busy /\ SumOver(started, Subs) < MaxAttempts /\ \E a \in Slots : att[a].pc = "unused"

\* the outcomes the persistence layer / the sink may still produce
DbResults == IF faults < MaxFaults THEN DbOutcomes ELSE {"ok"}
SinkResults == IF faults < MaxFaults THEN SinkOutcomes ELSE {"ok"}
DbFault(r) == IF r = "ok" THEN faults ELSE faults + 1
SinkFault(r) == IF r = "ok" THEN faults ELSE faults + 1

\* getSubmissionAnalytics: successRate, in percent, as a fraction
successRate(totalSubmissions, completedEvents) ==
  IF totalSubmissions > 0
    THEN [num |-> completedEvents * 100, den |-> totalSubmissions]
    ELSE [num |-> 0, den |-> 1]

\* ------------------------------------------------------------ log entries
FailedEntry(timestamp, retryCount, delay, message) ==
  [timestamp |-> timestamp, stage |-> "ai_processing", status |-> "failed",
   error |-> message, retryCount |-> retryCount, nextRetryIn |-> delay]

CompletedEntry(timestamp) ==
  [timestamp |-> timestamp, stage |-> "ai_processing", status |-> "completed",
   error |-> "none", retryCount |-> -1, nextRetryIn |-> -1]

Min(x, y) == IF x <= y THEN x ELSE y

\* this.retryDelays[Math.min(retryCount - 1, this.retryDelays.length - 1)]
RetryDelay(retryCount) == retryDelays[Min(retryCount - 1, Len(retryDelays) - 1) + 1]

\* retryCount = (submission.retry_count || 0) + 1, from the argument object
RetryCountOf(rec) == rec.retry_count + 1

Init ==
  /\ db = [s \in Subs |-> NoRow]
  /\ att = [a \in Slots |-> NoAttempt]
  /\ timers = EmptyBag
  /\ now = 0
  /\ analytics = [s \in Subs |-> [e \in EventTypes |-> 0]]
  /\ cs = [s \in Subs |-> "none"]
  /\ started = [s \in Subs |-> 0]
  /\ failures = [s \in Subs |-> 0]
  /\ faults = 0
  /\ rules = DefaultRules
  /\ overrides = [c \in ErrorCodes |-> NoOverride]
  /\ validated = NotValidated

\* ------------------------------------------------------- attempt plumbing
Whitespace == {" ", "\n", "\t"}

\* what the rules ask of a text that is given character by character
TextOf(chars) ==
  [len |-> Len(chars),
   blank |-> \A i \in 1..Len(chars) : chars[i] \in Whitespace,
   repeated |-> \E i \in 1..(Len(chars) - 10) :
                  \A j \in 1..10 : ToLowerChar(chars[i + j]) = ToLowerChar(chars[i]),
   test |-> includes(chars, <<"t","e","s","t">>)]

\* the row as validateSubmission reads it: the insert of createSubmission sets
\* content, privacy_level and partner_id; the columns carry no submission_type,
\* counts, dates or title
RowData(row) ==
  [submission_type |-> "", content |-> TextOf(row.content),
   privacy_level |-> "internal", partner_id |-> "partner",
   new_survivors |-> Undefined, existing_survivors |-> Undefined,
   total_survivors |-> Undefined, report_date |-> Undefined,
   start_date |-> Undefined, end_date |-> Undefined,
   title |-> NoText, description |-> NoText, notes |-> NoText]

\* ValidationThrows for a pipeline that gives up on invalid data
ValidationThrows_WhenInvalid(validationResult) == ~validationResult.isValid

\* await defaultValidationEngine.validateSubmission(submission): the rules run
\* inside try/catch and the result is only read for its confidence
ValidationThrows(validationResult) == FALSE

\* eqId with the row filter naming the first row whatever the argument
eqId_FirstRow(rec) == SubOrder[1]

\* .eq('id', submission.id): the row an update of this invocation addresses
eqId(rec) == rec.sub

NewAttempt(s, origin, obj_retry_count, obj_log, chain, notBefore) ==
  [sub |-> s, pc |-> "status", origin |-> origin,
   retry_count |-> obj_retry_count, processing_log |-> obj_log,
   error |-> "none", failedAt |-> -1, steps |-> <<>>,
   transcribedContent |-> <<>>, chain |-> chain, nth |-> 0,
   notBefore |-> notBefore, valid |-> TRUE]

\* Catch without the ceiling: every failure takes the retry branch
Catch_AlwaysRetry(rec, msg) ==
  [rec EXCEPT !.error = msg, !.failedAt = now, !.nth = failures[rec.sub] + 1,
     !.pc = "retry_update"]

\* entering the catch block of processSubmission with error message msg:
\* retryCount is computed from the argument object and selects the branch
Catch(rec, msg) ==
  [rec EXCEPT !.error = msg, !.failedAt = now, !.nth = failures[rec.sub] + 1,
     !.pc = IF RetryCountOf(rec) <= maxRetries THEN "retry_update" ELSE "fail_update"]

CatchPcs == {"retry_update", "fail_update"}

\* bookkeeping: the step of invocation a entered the catch block
CountFailure(a) ==
  failures' = [failures EXCEPT ![att[a].sub] =
                 IF att'[a].pc \in CatchPcs /\ att[a].pc \notin CatchPcs THEN @ + 1 ELSE @]

\* next_retry_at: new Date(Date.now() + delay), evaluated in the catch block
NextRetryAt(rec) == rec.failedAt + RetryDelay(RetryCountOf(rec))

\* TimerDue with the delay argument of setTimeout dropped
TimerDue_NoDelay(rec) == now

\* setTimeout(..., delay): the callback runs no earlier than delay from now
TimerDue(rec) == now + RetryDelay(RetryCountOf(rec))

\* LogSubmissionAnalytics without its try/catch
LogSubmissionAnalytics_NoCatch(r) == IF r = "throw" THEN "threw" ELSE "returned"

\* try/catch of logSubmissionAnalytics: whatever the sink does, the call returns
LogSubmissionAnalytics(r) == "returned"

\* the insert into submission_analytics
Emit(r, s, eventType) ==
  IF r = "ok" /\ eventType \in EventTypes
    THEN [analytics EXCEPT ![s][eventType] = @ + 1] ELSE analytics

\* Settle with createSubmission going on whatever its attempt did
Settle_Swallowing(a, res) ==
  /\ att' = [att EXCEPT ![a] = NoAttempt]
  /\ cs' = IF att[a].origin = "create" THEN [cs EXCEPT ![att[a].sub] = "logging"] ELSE cs

\* the promise of processSubmission settles; createSubmission awaits its own
Settle(a, res) ==
  /\ att' = [att EXCEPT ![a] = NoAttempt]
  /\ cs' = IF att[a].origin = "create"
             THEN [cs EXCEPT ![att[a].sub] = IF res = "resolved" THEN "logging" ELSE "rejected"]
             ELSE cs

combinedContent(rec) == combinedContentOf(db[rec.sub].content, rec.transcribedContent)

\* AfterTranscription with crisis detection placed before the translation
AfterTranscription_CrisisFirst(rec) ==
  IF combinedContent(rec) # <<>>
    THEN [rec EXCEPT !.steps = Append(@, "crisis_detection"), !.pc = "translate"]
    ELSE [rec EXCEPT !.steps = Append(@, "crisis_detection"),
                     !.pc = IF detectCrisisIndicators(combinedContent(rec))
                              THEN "log_crisis" ELSE "persist"]

\* if (combinedContent) translate ...; then detectCrisisIndicators(combinedContent)
AfterTranscription(rec) ==
  IF combinedContent(rec) # <<>>
    THEN [rec EXCEPT !.pc = "translate"]
    ELSE [rec EXCEPT !.steps = Append(@, "crisis_detection"),
                     !.pc = IF detectCrisisIndicators(combinedContent(rec))
                              THEN "log_crisis" ELSE "persist"]

AfterTranslation(rec) ==
  [rec EXCEPT !.steps = Append(@, "crisis_detection"),
              !.pc = IF detectCrisisIndicators(combinedContent(rec))
                       THEN "log_crisis" ELSE "persist"]

Did(rec, step) == \E i \in 1..Len(rec.steps) : rec.steps[i] = step

\* ------------------------------------------------------------------ actions
\* createSubmission up to and including the call of processSubmission
CreateSubmission(s, d) ==
  /\ cs[s] = "none"
  /\ \A i \in 1..Len(SubOrder) : SubOrder[i] = s => \A j \in 1..(i-1) : cs[SubOrder[j]] # "none"
  /\ CanStart
  /\ \E r \in DbResults :
       /\ faults' = DbFault(r)
       /\ IF r = "ok"
            THEN /\ db' = [db EXCEPT ![s] = [NoRow EXCEPT !.exists = TRUE,
                              !.content = d, !.hasAudio = FALSE,
                              !.processing_status = "pending", !.retry_count = 0]]
                 /\ att' = [att EXCEPT ![FreeSlot] = NewAttempt(s, "create", 0, <<>>, 1, -1)]
                 /\ cs' = [cs EXCEPT ![s] = "processing"]
                 /\ started' = [started EXCEPT ![s] = @ + 1]
            ELSE /\ cs' = [cs EXCEPT ![s] = "rejected"]
                 /\ UNCHANGED <<db, att, started>>
  /\ UNCHANGED <<timers, now, analytics, failures>>
  /\ UNCHANGED engine

\* a caller invokes processSubmission, which is public, with a row that
\* another client stored
ProcessStored(s, d) ==
  /\ cs[s] = "none"
  /\ \A i \in 1..Len(SubOrder) : SubOrder[i] = s => \A j \in 1..(i-1) : cs[SubOrder[j]] # "none"
  /\ CanStart
  /\ db' = [db EXCEPT ![s] = [NoRow EXCEPT !.exists = TRUE,
               !.content = d.content, !.hasAudio = d.hasAudio,
               !.processing_status = "pending", !.retry_count = d.retry_count]]
  /\ att' = [att EXCEPT ![FreeSlot] = NewAttempt(s, "external", d.retry_count, <<>>, 1, -1)]
  /\ cs' = [cs EXCEPT ![s] = "stored"]
  /\ started' = [started EXCEPT ![s] = @ + 1]
  /\ UNCHANGED <<timers, now, analytics, failures, faults>>
  /\ UNCHANGED engine

\* the invocation an external scheduler makes when it follows the recorded
\* schedule: the record waits for a retry, its next_retry_at has passed and
\* no invocation for it is under way
Cooperative(s) ==
  /\ db[s].processing_status = "pending"
  /\ db[s].retry_count > 0
  /\ now >= db[s].next_retry_at
  /\ \A a \in Slots : att[a].sub # s

\* a caller other than createSubmission invokes processSubmission with the
\* record as it is stored now
Reinvoke(s) ==
  /\ db[s].exists
  /\ CanStart
  /\ IF Cooperative(s)
       THEN faults' = faults
       ELSE faults < MaxFaults /\ faults' = faults + 1
  /\ att' = [att EXCEPT ![FreeSlot] =
               NewAttempt(s, "external", db[s].retry_count, db[s].processing_log, 1, -1)]
  /\ started' = [started EXCEPT ![s] = @ + 1]
  /\ UNCHANGED <<db, timers, now, analytics, cs, failures>>
  /\ UNCHANGED engine

\* setTimeout(() => this.processSubmission(submission), delay) fires
TimerFire ==
  /\ CanStart
  /\ \E t \in BagToSet(timers) :
       /\ now >= t.due
       /\ att' = [att EXCEPT ![FreeSlot] =
                    NewAttempt(t.sub, "timer", t.retry_count, t.processing_log,
                               t.chain + 1, t.next_retry_at)]
       /\ timers' = timers (-) SetToBag({t})
       /\ started' = [started EXCEPT ![t.sub] = @ + 1]
  /\ UNCHANGED <<db, now, analytics, cs, failures, faults>>
  /\ UNCHANGED engine

\* the instants at which something is due: a timer, or a recorded next_retry_at
Deadlines == {t.due : t \in BagToSet(timers)} \cup {db[s].next_retry_at : s \in Subs}

\* time passes, up to the next instant at which something is due
Tick ==
  /\ ~Busy
  /\ \E d \in Deadlines :
       /\ d > now
       /\ d <= MaxClock
       /\ \A e \in Deadlines : e > now => d <= e
       /\ now' = d
  /\ UNCHANGED <<db, att, timers, analytics, cs, started, failures, faults>>
  /\ UNCHANGED engine

\* await updateSubmissionStatus(id, 'processing'); then validateSubmission
StepStatus(a) ==
  /\ att[a].pc = "status"
  /\ ~Busy
  /\ \E r \in DbResults :
       /\ faults' = DbFault(r)
       /\ IF r = "ok"
            THEN LET validationResult ==
                       validateSubmission(rules, overrides, now, RowData(db[att[a].sub]))
                     checked == [att[a] EXCEPT !.steps = Append(@, "validation"),
                                               !.valid = validationResult.isValid]
                 IN  /\ db' = [db EXCEPT ![eqId(att[a])].processing_status = "processing"]
                     /\ att' = [att EXCEPT ![a] =
                          IF ValidationThrows(validationResult)
                            THEN Catch(att[a], "validation_error")
                          ELSE IF db[att[a].sub].hasAudio
                            THEN [checked EXCEPT !.pc = "transcribe"]
                            ELSE AfterTranscription(checked)]
            ELSE /\ att' = [att EXCEPT ![a] = Catch(att[a], "status_update_error")]
                 /\ UNCHANGED db
  /\ UNCHANGED <<timers, now, analytics, cs, started>>
  /\ CountFailure(a)
  /\ UNCHANGED engine

\* downloadMediaFile and speechService.transcribeAudio
StepTranscribe(a) ==
  /\ att[a].pc = "transcribe"
  /\ \/ \E t \in Transcripts :
          att' = [att EXCEPT ![a] = [att[a] EXCEPT !.transcribedContent = t,
                     !.steps = Append(@, "transcription"), !.pc = "log_transcribed"]]
     \/ att' = [att EXCEPT ![a] = Catch(att[a], "Failed to download media file")]
  /\ UNCHANGED <<db, timers, now, analytics, cs, started, faults>>
  /\ CountFailure(a)
  /\ UNCHANGED engine

\* audio_transcribed event
LogTranscribed(a) ==
  /\ att[a].pc = "log_transcribed"
  /\ \E r \in SinkResults :
       /\ faults' = SinkFault(r)
       /\ analytics' = Emit(r, att[a].sub, "audio_transcribed")
       /\ att' = [att EXCEPT ![a] =
            IF LogSubmissionAnalytics(r) = "returned"
              THEN AfterTranscription(att[a]) ELSE Catch(att[a], "analytics_error")]
  /\ UNCHANGED <<db, timers, now, cs, started>>
  /\ CountFailure(a)
  /\ UNCHANGED engine

\* translationService.autoTranslate(combinedContent, 'en')
StepTranslate(a) ==
  /\ att[a].pc = "translate"
  /\ \/ att' = [att EXCEPT ![a] = [att[a] EXCEPT
                     !.steps = Append(@, "translation"), !.pc = "log_translated"]]
     \/ att' = [att EXCEPT ![a] = Catch(att[a], "translation_error")]
  /\ UNCHANGED <<db, timers, now, analytics, cs, started, faults>>
  /\ CountFailure(a)
  /\ UNCHANGED engine

\* content_translated event, then detectCrisisIndicators(combinedContent)
LogTranslated(a) ==
  /\ att[a].pc = "log_translated"
  /\ \E r \in SinkResults :
       /\ faults' = SinkFault(r)
       /\ analytics' = Emit(r, att[a].sub, "content_translated")
       /\ att' = [att EXCEPT ![a] =
            IF LogSubmissionAnalytics(r) = "returned"
              THEN AfterTranslation(att[a]) ELSE Catch(att[a], "analytics_error")]
  /\ UNCHANGED <<db, timers, now, cs, started>>
  /\ CountFailure(a)
  /\ UNCHANGED engine

\* handleCrisisSubmission: the crisis_detected event
LogCrisis(a) ==
  /\ att[a].pc = "log_crisis"
  /\ \E r \in SinkResults :
       /\ faults' = SinkFault(r)
       /\ analytics' = Emit(r, att[a].sub, "crisis_detected")
       /\ att' = [att EXCEPT ![a] =
            IF LogSubmissionAnalytics(r) = "returned"
              THEN [att[a] EXCEPT !.pc = "persist"] ELSE Catch(att[a], "analytics_error")]
  /\ UNCHANGED <<db, timers, now, cs, started>>
  /\ CountFailure(a)
  /\ UNCHANGED engine

\* update({processed, processing_status: 'completed', translated_content,
\*         processing_log: [...submission.processing_log, entry]})
StepPersist(a) ==
  /\ att[a].pc = "persist"
  /\ ~Busy
  /\ \E r \in DbResults :
       /\ faults' = DbFault(r)
       /\ IF r = "ok"
            THEN /\ db' = [db EXCEPT ![eqId(att[a])] = [@ EXCEPT
                            !.processed = TRUE,
                            !.processing_status = "completed",
                            !.translated = Did(att[a], "translation"),
                            !.processing_log = Append(att[a].processing_log, CompletedEntry(now))]]
                 /\ att' = [att EXCEPT ![a] = [att[a] EXCEPT
                            !.steps = Append(@, "persistence"), !.pc = "log_completed"]]
            ELSE /\ att' = [att EXCEPT ![a] = Catch(att[a], "update_error")]
                 /\ UNCHANGED db
  /\ UNCHANGED <<timers, now, analytics, cs, started>>
  /\ CountFailure(a)
  /\ UNCHANGED engine

\* processing_completed event, then return processedSubmission
LogCompleted(a) ==
  /\ att[a].pc = "log_completed"
  /\ \E r \in SinkResults :
       /\ faults' = SinkFault(r)
       /\ analytics' = Emit(r, att[a].sub, "processing_completed")
       /\ IF LogSubmissionAnalytics(r) = "returned"
            THEN Settle(a, "resolved")
            ELSE /\ att' = [att EXCEPT ![a] = Catch(att[a], "analytics_error")]
                 /\ UNCHANGED cs
  /\ UNCHANGED <<db, timers, now, started>>
  /\ CountFailure(a)
  /\ UNCHANGED engine

\* catch branch retryCount <= maxRetries: the update whose result is not read
StepRetryUpdate(a) ==
  /\ att[a].pc = "retry_update"
  /\ ~Busy
  /\ \E r \in DbResults :
       LET retryCount == RetryCountOf(att[a])
           delay == RetryDelay(retryCount)
       IN  /\ faults' = DbFault(r)
           /\ db' = IF r = "ok"
                      THEN [db EXCEPT ![eqId(att[a])] = [@ EXCEPT
                              !.processing_status = "pending",
                              !.retry_count = retryCount,
                              !.next_retry_at = NextRetryAt(att[a]),
                              !.processing_log = Append(att[a].processing_log,
                                  FailedEntry(att[a].failedAt, retryCount, delay, att[a].error))]]
                      ELSE db
  /\ att' = [att EXCEPT ![a].pc = "log_retry"]
  /\ UNCHANGED <<timers, now, analytics, cs, started, failures>>
  /\ UNCHANGED engine

\* processing_retry event, setTimeout(..., delay), throw error
LogRetry(a) ==
  /\ att[a].pc = "log_retry"
  /\ \E r \in SinkResults :
       /\ faults' = SinkFault(r)
       /\ analytics' = Emit(r, att[a].sub, "processing_retry")
       /\ timers' = IF LogSubmissionAnalytics(r) = "returned"
                      THEN timers (+) SetToBag({[sub |-> att[a].sub,
                                         retry_count |-> att[a].retry_count,
                                         processing_log |-> att[a].processing_log,
                                         chain |-> att[a].chain,
                                         next_retry_at |-> NextRetryAt(att[a]),
                                         due |-> TimerDue(att[a])]})
                      ELSE timers
  /\ Settle(a, "rejected")
  /\ UNCHANGED <<db, now, started, failures>>
  /\ UNCHANGED engine

\* catch branch retryCount > maxRetries: updateSubmissionStatus(id, 'failed')
StepFailUpdate(a) ==
  /\ att[a].pc = "fail_update"
  /\ ~Busy
  /\ \E r \in DbResults :
       /\ faults' = DbFault(r)
       /\ IF r = "ok"
            THEN /\ db' = [db EXCEPT ![eqId(att[a])].processing_status = "failed"]
                 /\ att' = [att EXCEPT ![a].pc = "log_failed"]
                 /\ UNCHANGED cs
            ELSE /\ Settle(a, "rejected")
                 /\ UNCHANGED db
  /\ UNCHANGED <<timers, now, analytics, started, failures>>
  /\ UNCHANGED engine

\* processing_failed event, throw error
LogFailed(a) ==
  /\ att[a].pc = "log_failed"
  /\ \E r \in SinkResults :
       /\ faults' = SinkFault(r)
       /\ analytics' = Emit(r, att[a].sub, "processing_failed")
  /\ Settle(a, "rejected")
  /\ UNCHANGED <<db, timers, now, started, failures>>
  /\ UNCHANGED engine

\* createSubmission after processSubmission resolved: submission_created event
LogCreated(s) ==
  /\ cs[s] = "logging"
  /\ \E r \in SinkResults :
       /\ faults' = SinkFault(r)
       /\ analytics' = Emit(r, s, "submission_created")
       /\ cs' = [cs EXCEPT ![s] =
            IF LogSubmissionAnalytics(r) = "returned" THEN "resolved" ELSE "rejected"]
  /\ UNCHANGED <<db, att, timers, now, started, failures>>
  /\ UNCHANGED engine

Next ==
  \/ \E d \in Inputs : CreateSubmission(SubOrder[1], d)
  \/ \E d \in StoredRows : ProcessStored(SubOrder[1], d)
  \/ \E s \in Subs : Reinvoke(s)
  \/ TimerFire
  \/ Tick
  \/ \E a \in Slots : StepStatus(a)
  \/ \E a \in Slots : StepTranscribe(a)
  \/ \E a \in Slots : LogTranscribed(a)
  \/ \E a \in Slots : StepTranslate(a)
  \/ \E a \in Slots : LogTranslated(a)
  \/ \E a \in Slots : LogCrisis(a)
  \/ \E a \in Slots : StepPersist(a)
  \/ \E a \in Slots : LogCompleted(a)
  \/ \E a \in Slots : StepRetryUpdate(a)
  \/ \E a \in Slots : LogRetry(a)
  \/ \E a \in Slots : StepFailUpdate(a)
  \/ \E a \in Slots : LogFailed(a)
  \/ \E s \in Subs : LogCreated(s)

Spec == Init /\ [][Next]_vars

TypeOK ==
  /\ \A s \in Subs : db[s].processing_status \in {"none", "pending", "processing", "completed", "failed", "retry"}
  /\ now \in 0..MaxClock

\* ------------------------------------------------------------------ claims
Idle(s) == \A a \in Slots : att[a].sub # s
IsPrefix(p, q) == Len(p) <= Len(q) /\ SubSeq(q, 1, Len(p)) = p
Live(a) == att[a].pc # "unused"

\* nothing adverse has happened: no persistence or sink error, and every
\* invocation by a caller followed the recorded schedule
Undisturbed == faults = 0

\* the step in which invocation a has its retry update applied to the record
RetryWritten(a) ==
  /\ att[a].pc = "retry_update"
  /\ att'[a].pc = "log_retry"
  /\ faults' = faults

\* C1 (as claimed): a submission whose attempts all fail is attempted at most
\* 1 + maxRetries times by the pipeline's own scheduling: no invocation is the
\* fifth or later of a chain of self-scheduled retries, and none is scheduled.
C1_BoundedRetry ==
  Undisturbed =>
    /\ \A a \in Slots : att[a].chain <= maxRetries + 1
    /\ \A t \in BagToSet(timers) : t.chain + 1 <= maxRetries + 1

\* C2 (as claimed): once the persisted status is completed or failed, no step
\* changes the status, the retry_count or the processing_log of that record.
C2_TerminalAbsorbing ==
  [][\A s \in Subs :
       (Undisturbed' /\ db[s].processing_status \in {"completed", "failed"}) =>
         /\ db'[s].processing_status = db[s].processing_status
         /\ db'[s].retry_count = db[s].retry_count
         /\ db'[s].processing_log = db[s].processing_log]_vars

\* C3 (as claimed): the n-th consecutive failed attempt of a submission
\* (n = 1, 2, 3; nothing has completed before) records
\* next_retry_at = now + retryDelays[min(n-1, 4)].
C3_BackoffSequence ==
  [][\A a \in Slots :
       (Undisturbed' /\ RetryWritten(a) /\ ~db[att[a].sub].processed
          /\ att[a].nth <= maxRetries) =>
          db'[att[a].sub].next_retry_at = att[a].failedAt + RetryDelay(att[a].nth)]_vars

\* C4 (as claimed): every failed attempt whose retry is recorded increments the
\* persisted retry_count by exactly one.
C4_RetryCountCountsFailures ==
  [][\A a \in Slots :
       (Undisturbed' /\ RetryWritten(a)) =>
          db'[att[a].sub].retry_count = db[att[a].sub].retry_count + 1]_vars

\* C5 (as claimed): the persisted status changes only along
\* pending -> processing, processing -> completed, processing -> (retry ->)
\* pending, processing -> failed; and the catch block takes the failed branch
\* only for an invocation that started with retry_count >= 3.
C5_Transitions ==
  { <<"none", "pending">>, <<"pending", "processing">>,
    <<"processing", "completed">>, <<"processing", "retry">>,
    <<"retry", "pending">>, <<"processing", "pending">>,
    <<"processing", "failed">> }

C5_StatusStateMachine ==
  [][/\ \A s \in Subs :
          (Undisturbed' /\ db'[s].processing_status # db[s].processing_status) =>
            <<db[s].processing_status, db'[s].processing_status>> \in C5_Transitions
     /\ \A a \in Slots :
          att'[a].pc = "fail_update" => att'[a].retry_count >= maxRetries]_vars

\* C6 (as claimed): every write to processing_log extends the previously
\* persisted log; no persisted entry is removed, replaced or reordered.
C6_LogAppendOnly ==
  [][\A s \in Subs :
       Undisturbed' => IsPrefix(db[s].processing_log, db'[s].processing_log)]_vars

\* C7 (as claimed): when a submission is completed by its only successful
\* attempt after n failed ones, the persisted log is n failed entries followed
\* by one completed entry.
C7_FailThenSucceed ==
  \A s \in Subs :
    (Undisturbed /\ db[s].processing_status = "completed" /\ Idle(s)
       /\ started[s] = failures[s] + 1) =>
       LET log == db[s].processing_log IN
         /\ Len(log) = failures[s] + 1
         /\ \A i \in 1..failures[s] : log[i].status = "failed"
         /\ log[Len(log)].status = "completed"

\* C8 (as claimed): the pipeline never starts an attempt itself: no timer is
\* pending and no invocation was started by one.
C8_NoSelfScheduling ==
  Undisturbed =>
    /\ timers = EmptyBag
    /\ \A a \in Slots : att[a].origin # "timer"

\* C8 (amended): a failed attempt with retryCount <= 3 schedules the next
\* attempt itself with setTimeout; an attempt started by such a timer never
\* begins before the next_retry_at computed by the attempt that scheduled it.
C8_TimersRespectSchedule ==
  /\ \A t \in BagToSet(timers) : t.due >= t.next_retry_at
  /\ \A a \in Slots : att[a].origin = "timer" =>
        /\ att[a].notBefore >= 0
        /\ now >= att[a].notBefore

C8_SelfScheduledRetry ==
  /\ []C8_TimersRespectSchedule
  /\ [][\A a \in Slots :
         (att[a].pc = "log_retry" /\ att'[a] # att[a]) =>
           \E t \in BagToSet(timers') :
              /\ t.sub = att[a].sub
              /\ t.due = now + RetryDelay(RetryCountOf(att[a]))
              /\ CopiesIn(t, timers') = CopiesIn(t, timers) + 1]_vars

C8_Witness ==
  \E a \in Slots : att[a].origin = "timer" /\ att[a].pc = "status" /\ att[a].chain = 2

\* C9: a step that sends an analytics event leaves the persisted record
\* unchanged and never makes the attempt or createSubmission fail, whether the
\* sink stores the row, returns an error or throws; the retry timer is set
\* after the processing_retry event in every case.
C9_AnalyticsNeverAffects ==
  [][/\ \A a \in Slots :
          (att[a].pc \in {"log_transcribed", "log_translated", "log_crisis",
                          "log_completed", "log_retry", "log_failed"}
             /\ att'[a] # att[a]) =>
            /\ db' = db
            /\ att'[a].pc \notin CatchPcs
            /\ att[a].pc \in {"log_completed", "log_retry", "log_failed"} => att'[a] = NoAttempt
            /\ att[a].pc = "log_retry" => timers' # timers
            /\ att[a].pc = "log_completed" /\ att[a].origin = "create" =>
                 cs'[att[a].sub] = "logging"
     /\ \A s \in Subs :
          (cs[s] = "logging" /\ cs'[s] # cs[s]) => (cs'[s] = "resolved" /\ db' = db)]_vars

\* the sink lost the processing_completed row of the only attempt, which
\* completed all the same, and createSubmission resolved
C9_Witness ==
  \E s \in Subs :
    /\ db[s].processing_status = "completed"
    /\ Idle(s)
    /\ started[s] = 1
    /\ cs[s] = "resolved"
    /\ faults > 0
    /\ analytics[s]["processing_completed"] = 0

StepRank(step) ==
  CASE step = "validation" -> 1
    [] step = "transcription" -> 2
    [] step = "crisis_detection" -> 3
    [] step = "translation" -> 4
    [] step = "persistence" -> 5

\* C10 (as claimed): crisis detection runs before the translation collaborator
\* is invoked: an attempt whose translation threw on content with a crisis
\* keyword has run the detection (and so sent crisis_detected).
C10_CrisisBeforeTranslation ==
  \A a \in Slots : Live(a) =>
    /\ \A i, j \in 1..Len(att[a].steps) :
          i < j => StepRank(att[a].steps[i]) < StepRank(att[a].steps[j])
    /\ (att[a].error = "translation_error"
          /\ detectCrisisIndicators(combinedContent(att[a]))) =>
         Did(att[a], "crisis_detection")

CodeRank(step) ==
  CASE step = "validation" -> 1
    [] step = "transcription" -> 2
    [] step = "translation" -> 3
    [] step = "crisis_detection" -> 4
    [] step = "persistence" -> 5

\* C10 (amended): the steps of one attempt run in the order validation,
\* transcription (if audio), translation (if the combined content is not
\* empty), crisis detection, persistence; crisis detection runs only after the
\* translation returned, so crisis_detected is not sent in an attempt whose
\* translation throws.
C10_StepOrder ==
  \A a \in Slots : Live(a) =>
    LET st == att[a].steps IN
      /\ \A i, j \in 1..Len(st) : i < j => CodeRank(st[i]) < CodeRank(st[j])
      /\ (Did(att[a], "crisis_detection") /\ combinedContent(att[a]) # <<>>) =>
            Did(att[a], "translation")
      /\ att[a].pc = "log_crisis" => Did(att[a], "translation")
      /\ att[a].error = "translation_error" => ~Did(att[a], "crisis_detection")

C10_Witness ==
  \E a \in Slots :
    /\ att[a].pc = "log_crisis"
    /\ att[a].steps = <<"validation", "transcription", "translation", "crisis_detection">>

\* ---------------------------------------------------------------------- C11
\* needle occurs in hay at some position, letters compared without regard to case
ContainsIgnoringCase(hay, needle) ==
  \E i \in 0..(Len(hay) - Len(needle)) :
     \A j \in 1..Len(needle) : ToLowerChar(hay[i + j]) = ToLowerChar(needle[j])

HasCrisisKeyword(text) ==
  \E k \in 1..Len(crisisKeywords) : ContainsIgnoringCase(text, crisisKeywords[k])

UrgentCase == <<"T","h","i","s"," ","i","s"," ","a","n"," ","U","R","G","E","N","T"," ","c","a","s","e">>
NothingUnusual == <<"n","o","t","h","i","n","g"," ","u","n","u","s","u","a","l">>

C12_ValidationNeverAborts ==
  [][\A a \in Slots :
       /\ (att[a].pc = "status" /\ att'[a].pc \in CatchPcs) =>
             (faults' = faults + 1 /\ att'[a].error = "status_update_error")
       /\ (att[a].pc = "status" /\ att'[a].pc \notin CatchPcs /\ att'[a] # att[a]) =>
             /\ att'[a].pc \in {"transcribe", "translate", "persist"}
             /\ att'[a].valid = ~MissingText(TextOf(db[att[a].sub].content))
       /\ (att[a].pc = "persist" /\ att'[a].pc = "log_completed" /\ ~att[a].valid) =>
             /\ db'[att[a].sub].processing_status = "completed"
             /\ db'[att[a].sub].retry_count = db[att[a].sub].retry_count]_vars

\* a submission without content, invalid for the required_fields rule,
\* completed by its first attempt
C12_Witness ==
  \E s \in Subs :
    /\ db[s].processing_status = "completed"
    /\ db[s].content = <<>>
    /\ db[s].retry_count = 0
    /\ Len(db[s].processing_log) = 1
    /\ cs[s] = "resolved"
    /\ analytics[s]["submission_created"] = 1

\* ---------------------------------------------------------------------- C14
\* every settled invocation sent the event of its outcome
OutcomeEvents(s) ==
  /\ analytics[s]["processing_completed"] = started[s] - failures[s]
  /\ analytics[s]["processing_retry"] + analytics[s]["processing_failed"] = failures[s]

\* C14 (as claimed): with the sink available, every record inserted by
\* createSubmission has its submission_created event once createSubmission
\* has settled, and every settled attempt has the event of its outcome:
\* processing_completed, processing_retry or processing_failed.
C14_EveryTransitionEmits ==
  \A s \in Subs :
    (Undisturbed /\ Idle(s) /\ cs[s] \in {"resolved", "rejected"} /\ db[s].exists) =>
       /\ analytics[s]["submission_created"] = 1
       /\ OutcomeEvents(s)

\* ---------------------------------------------------------------------- C13
\* Runs with two submissions.  They are explored without adverse events and
\* with at most MaxAttemptsTwo invocations; a row another client stored may
\* carry the retry_count a previous session of the service left in it.
RestartRows == { [content |-> <<>>, hasAudio |-> TRUE, retry_count |-> 0],
                 [content |-> <<>>, hasAudio |-> TRUE, retry_count |-> maxRetries] }

RoomForTwo == SumOver(started, Subs) < MaxAttemptsTwo

CreateEither == RoomForTwo /\ \E s \in Subs : \E d \in Inputs : CreateSubmission(s, d)
StoreEither == RoomForTwo /\ \E s \in Subs : \E d \in RestartRows : ProcessStored(s, d)
ReinvokeEither == RoomForTwo /\ \E s \in Subs : Reinvoke(s)
TimerFireEither == RoomForTwo /\ TimerFire

NextTwo ==
  \/ CreateEither
  \/ StoreEither
  \/ ReinvokeEither
  \/ TimerFireEither
  \/ Tick
  \/ \E a \in Slots : StepStatus(a)
  \/ \E a \in Slots : StepTranscribe(a)
  \/ \E a \in Slots : LogTranscribed(a)
  \/ \E a \in Slots : StepTranslate(a)
  \/ \E a \in Slots : LogTranslated(a)
  \/ \E a \in Slots : LogCrisis(a)
  \/ \E a \in Slots : StepPersist(a)
  \/ \E a \in Slots : LogCompleted(a)
  \/ \E a \in Slots : StepRetryUpdate(a)
  \/ \E a \in Slots : LogRetry(a)
  \/ \E a \in Slots : StepFailUpdate(a)
  \/ \E a \in Slots : LogFailed(a)
  \/ \E s \in Subs : LogCreated(s)

InitTwo ==
  /\ db = [s \in Subs |-> NoRow]
  /\ att = [a \in Slots |-> NoAttempt]
  /\ timers = EmptyBag
  /\ now = 0
  /\ analytics = [s \in Subs |-> [e \in EventTypes |-> 0]]
  /\ cs = [s \in Subs |-> "none"]
  /\ started = [s \in Subs |-> 0]
  /\ failures = [s \in Subs |-> 0]
  /\ faults = MaxFaults
  /\ rules = DefaultRules
  /\ overrides = [c \in ErrorCodes |-> NoOverride]
  /\ validated = NotValidated

SpecTwo == InitTwo /\ [][NextTwo]_vars

\* C13: a step of an invocation for submission A leaves the persisted
\* processing_status, retry_count, next_retry_at and processing_log of every
\* other submission B as they were, under every interleaving.
C13_Isolation ==
  [][\A a \in Slots :
       (Live(a) /\ att'[a] # att[a]) =>
          \A b \in Subs \ {att[a].sub} :
             /\ db'[b].processing_status = db[b].processing_status
             /\ db'[b].retry_count = db[b].retry_count
             /\ db'[b].next_retry_at = db[b].next_retry_at
             /\ db'[b].processing_log = db[b].processing_log]_vars

\* one submission completed while the other has a failure recorded, a late
\* attempt for it still under way
C13_Witness ==
  \E a \in Slots :
    /\ Live(a)
    /\ att[a].sub = SubOrder[2]
    /\ att[a].origin = "timer"
    /\ db[SubOrder[2]].retry_count = 1
    /\ db[SubOrder[1]].processing_status = "completed"
    /\ db[SubOrder[1]].retry_count = 0

\* ------------------------------------------------- validation engine clients
\* What clients of the engine do with it: register and remove rules and
\* overrides, validate submission data, while the clock advances.  A client
\* has read the result of its call before anything else happens.
Text(len) == [len |-> len, blank |-> FALSE, repeated |-> FALSE, test |-> FALSE]

BaseData ==
  [submission_type |-> "general_report", content |-> Text(20),
   privacy_level |-> "internal", partner_id |-> "partner",
   new_survivors |-> Undefined, existing_survivors |-> Undefined,
   total_survivors |-> Undefined, report_date |-> Undefined,
   start_date |-> Undefined, end_date |-> Undefined,
   title |-> NoText, description |-> NoText, notes |-> NoText]

\* data on which a rule warns without failing: repeated characters, the word
\* 'test', counts that reconcile with more than 100 new survivors
WarningData == {
  [BaseData EXCEPT !.content = [Text(20) EXCEPT !.repeated = TRUE]],
  [BaseData EXCEPT !.content = [Text(20) EXCEPT !.test = TRUE]],
  [BaseData EXCEPT !.submission_type = "survivor_report", !.new_survivors = 150,
                   !.existing_survivors = 5, !.total_survivors = 155] }

\* a monthly summary, as the submission form and the submissions table name it
MonthlyData == {
  [BaseData EXCEPT !.submission_type = "monthly_summary", !.new_survivors = 3,
                   !.existing_survivors = 5, !.total_survivors = 9] }

\* the lengths around the cap of a field: the cap, one more, and the first
\* length above nine tenths of the cap
Around(limit) == {limit, limit + 1, (9 * limit) \div 10 + 1}

LimitData ==
  {[BaseData EXCEPT !.content = Text(len)] : len \in Around(limits[1].limit)}
    \cup {[BaseData EXCEPT !.title = Text(len)] : len \in Around(limits[2].limit)}
    \cup {[BaseData EXCEPT !.description = Text(len)] : len \in Around(limits[3].limit)}
    \cup {[BaseData EXCEPT !.notes = Text(len)] : len \in Around(limits[4].limit)}

ValidationData == {
  BaseData,
  [BaseData EXCEPT !.content = Text(0)],
  [BaseData EXCEPT !.submission_type = "survivor_report", !.new_survivors = 3,
                   !.existing_survivors = 5, !.total_survivors = 9],
  [BaseData EXCEPT !.submission_type = "survivor_report", !.new_survivors = 3,
                   !.existing_survivors = 5, !.total_survivors = 8],
  [BaseData EXCEPT !.start_date = 1, !.end_date = 1],
  [BaseData EXCEPT !.report_date = 1],
  [BaseData EXCEPT !.submission_type = "survivor_report", !.content = Text(0),
                   !.new_survivors = 3, !.existing_survivors = 5, !.total_survivors = 9,
                   !.start_date = 1, !.end_date = 0] }

\* the data of clients that fill in the fields the default rules look at
FieldData == ValidationData \cup WarningData \cup MonthlyData \cup LimitData

\* the rules clients register besides the default ones
CallerRules == {
  Rule("custom_fail", {}, "custom_fail", TRUE),
  Rule("custom_fail", {}, "custom_fail", FALSE),
  Rule("custom_other", {"survivor_report"}, "custom_other", TRUE),
  Rule("custom_throw", {}, "custom_throw", TRUE) }

\* the rules clients remove
RemovableIds == {"required_fields", "custom_fail"}

\* the error codes clients register overrides for, and the expiry they give
OverrideCodes == {"required_field", "survivor_count_mismatch"}
Expiries == {Undefined, 1}

\* registries left by earlier removeRule calls: all default rules, or none
StartRegistries == {DefaultRules, <<>>}

Position(registry, id) ==
  IF \E i \in 1..Len(registry) : registry[i].id = id
    THEN CHOOSE i \in 1..Len(registry) : registry[i].id = id
    ELSE 0

\* this.rules.set(rule.id, rule): a known id keeps its place in the order
AddRule(rule) ==
  /\ rules' = IF Position(rules, rule.id) > 0
                THEN [rules EXCEPT ![Position(rules, rule.id)] = rule]
                ELSE Append(rules, rule)
  /\ validated' = NotValidated
  /\ UNCHANGED <<service, now, overrides>>

\* this.rules.delete(ruleId)
RemoveRule(id) ==
  /\ rules' = SelectSeq(rules, LAMBDA r : r.id # id)
  /\ validated' = NotValidated
  /\ UNCHANGED <<service, now, overrides>>

\* this.overrides.set(override.errorCode, override)
AddOverride(code, expiresAt) ==
  /\ overrides' = [overrides EXCEPT ![code] = [registered |-> TRUE, expiresAt |-> expiresAt]]
  /\ validated' = NotValidated
  /\ UNCHANGED <<service, now, rules>>

\* this.overrides.delete(errorCode)
RemoveOverride(code) ==
  /\ overrides' = [overrides EXCEPT ![code] = NoOverride]
  /\ validated' = NotValidated
  /\ UNCHANGED <<service, now, rules>>

\* Validate that uses up the overrides it has applied
Validate_ConsumingOverrides(data) ==
  /\ validated' = [called |-> TRUE, data |-> data,
                   found |-> RuleLoop(rules, Len(rules), data, now).errors,
                   result |-> validateSubmission(rules, overrides, now, data)]
  /\ overrides' = [code \in ErrorCodes |->
                     IF code \in {e.code : e \in {RuleLoop(rules, Len(rules), data, now).errors[i] :
                                                   i \in 1..Len(RuleLoop(rules, Len(rules), data, now).errors)}}
                       THEN NoOverride ELSE overrides[code]]
  /\ UNCHANGED <<service, now, rules>>

\* a client awaits validateSubmission(data)
Validate(data) ==
  /\ validated' = [called |-> TRUE, data |-> data,
                   found |-> RuleLoop(rules, Len(rules), data, now).errors,
                   result |-> validateSubmission(rules, overrides, now, data)]
  /\ UNCHANGED <<service, now, rules, overrides>>

\* the clock of new Date() moves on
Advance ==
  /\ now < MaxValidationClock
  /\ now' = now + 1
  /\ validated' = NotValidated
  /\ UNCHANGED <<service, rules, overrides>>

InitValidation ==
  /\ db = [s \in Subs |-> NoRow]
  /\ att = [a \in Slots |-> NoAttempt]
  /\ timers = EmptyBag
  /\ now = 0
  /\ analytics = [s \in Subs |-> [e \in EventTypes |-> 0]]
  /\ cs = [s \in Subs |-> "none"]
  /\ started = [s \in Subs |-> 0]
  /\ failures = [s \in Subs |-> 0]
  /\ faults = 0
  /\ rules \in StartRegistries
  /\ overrides = [c \in ErrorCodes |-> NoOverride]
  /\ validated = NotValidated

NextValidation ==
  \/ \E rule \in CallerRules : AddRule(rule)
  \/ \E id \in RemovableIds : RemoveRule(id)
  \/ \E code \in OverrideCodes : \E expiresAt \in Expiries : AddOverride(code, expiresAt)
  \/ \E code \in OverrideCodes : RemoveOverride(code)
  \/ \E data \in ValidationData : Validate(data)
  \/ Advance

SpecValidation == InitValidation /\ [][NextValidation]_vars

\* clients of the engine as constructed: the default rules only
InitFields == InitValidation /\ rules = DefaultRules

NextFields ==
  \/ \E code \in OverrideCodes : \E expiresAt \in Expiries : AddOverride(code, expiresAt)
  \/ \E code \in OverrideCodes : RemoveOverride(code)
  \/ \E data \in FieldData : Validate(data)
  \/ Advance

SpecFields == InitFields /\ [][NextFields]_vars

\* ------------------------------------------------------- claims C15 .. C20
\* What a client that has just called validateSubmission holds: the call left
\* rules, overrides and the clock as they were, and every other operation of
\* a client discards the result, so `validated` is judged against them.
SeqSet(s) == {s[i] : i \in 1..Len(s)}
Reverse(s) == [i \in 1..Len(s) |-> s[Len(s) + 1 - i]]

RegisteredRules == SeqSet(rules)

\* the rules the claim calls applicable: active, and no declared types or the
\* declared type of the data among them
ApplicableTo(data) ==
  {r \in RegisteredRules :
     r.active /\ (r.submissionTypes = {} \/ data.submission_type \in r.submissionTypes)}

ErrorsOf(r, data) == SeqSet(Run(r.validator, data, now).errors)

ExpectedErrors(data) == UNION {ErrorsOf(r, data) : r \in ApplicableTo(data)}

ExpectedCount(data) ==
  SumOver([r \in ApplicableTo(data) |-> Cardinality(ErrorsOf(r, data))], ApplicableTo(data))

\* C15: the errors validateSubmission has collected before it filters by
\* override are exactly the errors of every registered rule that is active
\* and matches the declared type: no rule is skipped because an earlier one
\* failed, inactive and removed rules add nothing, and the set is the one the
\* same rules give when registered in the opposite order.
C15_NoShortCircuit ==
  validated.called =>
    /\ SeqSet(validated.found) = ExpectedErrors(validated.data)
    /\ Len(validated.found) = ExpectedCount(validated.data)
    /\ SeqSet(RuleLoop(Reverse(rules), Len(rules), validated.data, now).errors)
         = SeqSet(validated.found)

\* three rules have failed on the same data, next to an inactive rule and
\* after the removal of a default rule
C15_Witness ==
  /\ validated.called
  /\ {"survivor_count_mismatch", "date_sequence_error", "custom_other"}
       \subseteq {e.code : e \in SeqSet(validated.found)}
  /\ \E r \in RegisteredRules : ~r.active
  /\ \A r \in RegisteredRules : r.id # "required_fields"

\* the applicable rules whose validator throws on the data
Throwing(data) == {r \in ApplicableTo(data) : Run(r.validator, data, now).threw}

RuleErrorWarnings(warnings) ==
  {i \in 1..Len(warnings) : warnings[i].code = "validation_rule_error"}

\* the registry without the rules that throw on the data
WithoutThrowing(data) == SelectSeq(rules, LAMBDA r : r \notin Throwing(data))

\* C16: when the validator of an applicable rule throws, validateSubmission
\* still returns a result; the result carries exactly one warning with code
\* validation_rule_error for that rule, the remaining rules have run, and
\* isValid and the errors are those the engine gives without the throwing rule.
C16_RuleFaultIsolation ==
  validated.called =>
    LET data == validated.data
        warnings == validated.result.warnings
        alone == validateSubmission(WithoutThrowing(data), overrides, now, data)
    IN  /\ \A r \in Throwing(data) :
             Cardinality({i \in RuleErrorWarnings(warnings) : warnings[i].about = r.name}) = 1
        /\ Cardinality(RuleErrorWarnings(warnings)) = Cardinality(Throwing(data))
        /\ validated.result.isValid = alone.isValid
        /\ validated.result.errors = alone.errors
        /\ validated.found
             = RuleLoop(WithoutThrowing(data), Len(WithoutThrowing(data)), data, now).errors

\* a rule registered after the throwing rule has reported its error
C16_Witness ==
  /\ validated.called
  /\ Throwing(validated.data) # {}
  /\ Position(rules, "custom_throw") > 0
  /\ Position(rules, "custom_other") > Position(rules, "custom_throw")
  /\ \E i \in 1..Len(validated.result.errors) : validated.result.errors[i].code = "custom_other"
  /\ RuleErrorWarnings(validated.result.warnings) # {}

\* the applicable rules that returned a result, and so reported a confidence
Reporting(data) == ApplicableTo(data) \ Throwing(data)

ReportedTotal(data) ==
  SumOver([r \in Reporting(data) |-> Run(r.validator, data, now).confidence], Reporting(data))

\* C17: the confidence of the result, in hundredths, is the arithmetic mean
\* of the confidences reported by the rules that applied to the data (a rule
\* that did not apply, or whose validator threw, reports none), is 1.0 when
\* no rule reported one, and lies between 0 and 1.
C17_AggregateConfidence ==
  validated.called =>
    LET data == validated.data
        n == Cardinality(Reporting(data))
        c == validated.result.confidence
    IN  /\ c.den > 0
        /\ n > 0 => c.num * n = ReportedTotal(data) * c.den
        /\ n = 0 => c.num = 100 * c.den
        /\ 0 <= c.num /\ c.num <= 100 * c.den

\* several rules with different confidences have reported, a registered rule
\* has not applied, and the mean is below 1.0
C17_Witness ==
  /\ validated.called
  /\ Cardinality(Reporting(validated.data)) >= 3
  /\ RegisteredRules \ ApplicableTo(validated.data) # {}
  /\ \E r \in Reporting(validated.data) : r.validator = "custom_fail"
  /\ validated.result.confidence.num < 100 * validated.result.confidence.den

\* an override for the code is registered and has not expired at the clock
Waived(registered, code, clock) ==
  /\ registered[code].registered
  /\ registered[code].expiresAt = Undefined \/ clock <= registered[code].expiresAt

Codes(errors) == {errors[i].code : i \in 1..Len(errors)}

\* the result of a call: an error found is absent from errors iff its code
\* is waived, and isValid says that errors is empty, whatever the warnings
C18_Filtered ==
  validated.called =>
    /\ \A i \in 1..Len(validated.found) :
         (validated.found[i] \notin SeqSet(validated.result.errors))
           <=> Waived(overrides, validated.found[i].code, now)
    /\ SeqSet(validated.result.errors) \subseteq SeqSet(validated.found)
    /\ validated.result.isValid <=> (validated.result.errors = <<>>)

\* C18: an error is absent from the errors of the result if and only if an
\* override for its code is registered and not expired when validateSubmission
\* is called; isValid is true if and only if the filtered errors are empty,
\* with or without warnings; and once removeOverride(code) has removed the
\* override that kept an error out, validateSubmission reports the error.
C18_OverrideFiltering ==
  /\ []C18_Filtered
  /\ [][\A code \in ErrorCodes :
          ( /\ validated.called
            /\ code \in Codes(validated.found) \ Codes(validated.result.errors)
            /\ overrides[code].registered
            /\ overrides' = [overrides EXCEPT ![code] = NoOverride] )
          => LET again == validateSubmission(rules', overrides', now', validated.data)
             IN  code \in Codes(again.errors) /\ ~again.isValid]_vars

\* an override keeps the only error out of the result, which is valid although
\* it carries a warning
C18_Witness ==
  /\ validated.called
  /\ validated.found # <<>>
  /\ validated.result.errors = <<>>
  /\ validated.result.isValid
  /\ validated.result.warnings # <<>>
  /\ \E code \in Codes(validated.found) : overrides[code].registered

\* the result of a call, for the errors whose code has an override that
\* carries an expiry: kept out before the expiry, reported after it
C19_AtValidationTime ==
  validated.called =>
    \A i \in 1..Len(validated.found) :
      LET override == overrides[validated.found[i].code]
      IN  (override.registered /\ override.expiresAt # Undefined) =>
            /\ now < override.expiresAt => validated.found[i] \notin SeqSet(validated.result.errors)
            /\ now > override.expiresAt => validated.found[i] \in SeqSet(validated.result.errors)

\* the errors of the call a client makes next, on the same data
ReportedNext(data) == Codes(validateSubmission(rules', overrides', now', data).errors)
FoundNext(data) == Codes(RuleLoop(rules', Len(rules'), data, now').errors)

\* C19: the expiry of an override is compared with the clock of the call, not
\* with the clock of addOverride: the error is kept out of the result while
\* the clock is before expiresAt, it is reported by the call that follows the
\* clock passing expiresAt although no removeOverride was made, and an
\* override added with an expiresAt already passed keeps nothing out.
C19_ExpiryAtValidationTime ==
  /\ []C19_AtValidationTime
  /\ [][\A code \in ErrorCodes :
          ( /\ validated.called
            /\ code \in Codes(validated.found) \ Codes(validated.result.errors)
            /\ overrides' = overrides
            /\ overrides[code].expiresAt # Undefined
            /\ now <= overrides[code].expiresAt
            /\ now' > overrides[code].expiresAt )
          => code \in ReportedNext(validated.data)]_vars
  /\ [][\A code \in ErrorCodes :
          ( /\ overrides'[code] # overrides[code]
            /\ overrides'[code].registered
            /\ overrides'[code].expiresAt # Undefined
            /\ overrides'[code].expiresAt < now )
          => \A data \in ValidationData :
               code \in FoundNext(data) => code \in ReportedNext(data)]_vars

\* an override with an expiry is still registered, the clock has passed the
\* expiry and the call reports the error
C19_Witness ==
  /\ validated.called
  /\ \E i \in 1..Len(validated.result.errors) :
       LET override == overrides[validated.result.errors[i].code]
       IN  override.registered /\ override.expiresAt # Undefined /\ override.expiresAt < now

\* C20: an error a rule reports with canOverride = false (required_field,
\* date_sequence_error) is in the errors of the result and makes it invalid,
\* whatever overrides addOverride and removeOverride have left registered.
C20_NonOverridableNeverWaived ==
  validated.called =>
    \A i \in 1..Len(validated.found) :
      ~validated.found[i].canOverride =>
        /\ validated.found[i] \in SeqSet(validated.result.errors)
        /\ ~validated.result.isValid

\* ------------------------------------------------------- claims C21 .. C24
WarningsOf(r, data) == SeqSet(Run(r.validator, data, now).warnings)

\* C21: every warning a rule that applied has produced is among the warnings
\* of the result of validateSubmission, whether or not the rule also reported
\* an error: the warnings of data_consistency and duplicate_detection, and
\* the large-count warning of survivor_count_logic on counts that reconcile.
C21_WarningsSurfaced ==
  validated.called =>
    \A r \in Reporting(validated.data) :
      WarningsOf(r, validated.data) \subseteq SeqSet(validated.result.warnings)

\* data[field] of the k-th capped field
Capped(data, k) ==
  CASE k = 1 -> data.content
    [] k = 2 -> data.title
    [] k = 3 -> data.description
    [] k = 4 -> data.notes

\* C22: on data that is valid but for the length of a capped field f with cap
\* L, the result has no character_limit_exceeded error when length(f) <= L,
\* has that error and isValid = false when length(f) = L + 1, and for a length
\* above nine tenths of L but not above L is valid and carries a
\* character-limit warning for f.
C22_CharacterLimitBoundaries ==
  (validated.called /\ validated.data \in LimitData) =>
    \A k \in 1..Len(limits) :
      LET text == Capped(validated.data, k)
          f == limits[k].field
          L == limits[k].limit
          exceeded == \E e \in SeqSet(validated.result.errors) :
                        e.code = "character_limit_exceeded" /\ e.field = f
          warned == \E w \in SeqSet(validated.result.warnings) :
                      w.code = "approaching_character_limit" /\ w.field = f
      IN  Truthy(text) =>
            /\ text.len <= L => ~exceeded
            /\ text.len = L + 1 => exceeded /\ ~validated.result.isValid
            /\ (10 * text.len > 9 * L /\ text.len <= L) => validated.result.isValid /\ warned

\* C23: whenever new_survivors, existing_survivors and total_survivors are
\* all provided, validateSubmission finds a survivor_count_mismatch error on
\* total_survivors, suggesting new + existing as the expected total, if and
\* only if new + existing differs from total.
C23_SurvivorReconciliation ==
  LET data == validated.data
  IN  ( /\ validated.called
        /\ data.new_survivors # Undefined
        /\ data.existing_survivors # Undefined
        /\ data.total_survivors # Undefined ) =>
        ( (\E e \in SeqSet(validated.found) :
             /\ e.code = "survivor_count_mismatch"
             /\ e.field = "total_survivors"
             /\ e.suggestion = data.new_survivors + data.existing_survivors)
          <=> data.new_survivors + data.existing_survivors # data.total_survivors )

\* C24: validateSubmission leaves every rule and every override as it found
\* them, so that the same call made again on the same data, registry and
\* clock returns the same errors, warnings and isValid; and addOverride of an
\* override that is already registered changes nothing in what the engine
\* filters.
C24_ReadOnlyRepeatable ==
  /\ [][validated'.called =>
          /\ rules' = rules
          /\ overrides' = overrides
          /\ LET again == validateSubmission(rules', overrides', now', validated'.data)
             IN  /\ again.errors = validated'.result.errors
                 /\ again.warnings = validated'.result.warnings
                 /\ again.isValid = validated'.result.isValid]_vars
  /\ [][\A code \in OverrideCodes : \A expiresAt \in Expiries :
          ( /\ AddOverride(code, expiresAt)
            /\ overrides[code] = [registered |-> TRUE, expiresAt |-> expiresAt] )
          => /\ overrides' = overrides
             /\ \A data \in ValidationData :
                  validateSubmission(rules', overrides', now', data)
                    = validateSubmission(rules, overrides, now, data)]_vars

\* a call has filtered one of the errors it found and reports the others
C24_Witness ==
  /\ validated.called
  /\ validated.result.errors # <<>>
  /\ Len(validated.result.errors) < Len(validated.found)

\* ------------------------------------------------------- claims C25 .. C30
\* invocation a leaves the catch block's write to the submissions table
LeavesCatch(a) == att[a].pc \in CatchPcs /\ att'[a].pc \notin CatchPcs

\* C25: every attempt that fails leaves in the processing_log of its
\* submission an entry with status failed that carries the message of the
\* error thrown, together with the retry delay when a retry is scheduled, and
\* also when the attempt exceeds the ceiling and marks the submission failed.
C25_EveryFailureLogged ==
  [][\A a \in Slots :
       (Undisturbed' /\ LeavesCatch(a)) =>
         \E i \in 1..Len(db'[att[a].sub].processing_log) :
           LET entry == db'[att[a].sub].processing_log[i]
           IN  /\ entry.status = "failed"
               /\ entry.error = att[a].error
               /\ entry.timestamp = att[a].failedAt
               /\ att[a].pc = "retry_update"
                    => entry.nextRetryIn = RetryDelay(RetryCountOf(att[a]))]_vars

InFlight(s) == {a \in Slots : att[a].sub = s}

\* C26: at most one processing attempt of a submission is in flight at any
\* time, an attempt starts only on a record whose persisted status is
\* pending, and no write of an attempt drops what is in the processing_log.
C26_NoOverlappingAttempts ==
  /\ [](Undisturbed => \A s \in Subs : Cardinality(InFlight(s)) <= 1)
  /\ [][\A s \in Subs :
          (Undisturbed' /\ started'[s] > started[s])
            => db'[s].processing_status = "pending"]_vars
  /\ [][\A s \in Subs :
          Undisturbed' => IsPrefix(db[s].processing_log, db'[s].processing_log)]_vars

\* C27: the retry_count stored for a submission is always one of 0..3: the
\* attempt that goes over the ceiling marks the submission failed and leaves
\* retry_count as it is, however many attempts fail and whoever starts them.
C27_RetryCountWithinCeiling ==
  /\ [](\A s \in Subs : db[s].retry_count \in 0..maxRetries)
  /\ [][\A s \in Subs :
          (db'[s].processing_status = "failed" /\ db[s].processing_status # "failed")
            => db'[s].retry_count = db[s].retry_count]_vars

\* the attempt over the ceiling has marked the submission failed
C27_Witness ==
  \E s \in Subs : db[s].processing_status = "failed" /\ db[s].retry_count = maxRetries

Events(eventType) == SumOver([s \in Subs |-> analytics[s][eventType]], Subs)

\* C29: the analytics events hold no more processing_completed events than
\* submission_created events, so that successRate is between 0 and 100, and
\* above 0 once a submission has completed.  Judged on submissions that
\* createSubmission made, when no call of it and no attempt is under way.
C29_SuccessRateIsPercentage ==
  (Undisturbed /\ \A s \in Subs : Idle(s) /\ cs[s] \in {"none", "resolved", "rejected"}) =>
    LET created == Events("submission_created")
        completed == Events("processing_completed")
        rate == successRate(created, completed)
    IN  /\ completed <= created
        /\ 0 <= rate.num /\ rate.num <= 100 * rate.den
        /\ completed > 0 => rate.num > 0

\* the promise of invocation a settles in this step
Finishes(a) == att[a].pc # "unused" /\ att'[a].pc = "unused"

\* C30: when an attempt of processSubmission has finished, resolved or
\* rejected, and no other attempt of the submission is under way, the status
\* stored for the submission is pending, completed or failed and not
\* processing, also when the persistence layer has refused a write of the
\* catch block.
C30_NeverStuckInProcessing ==
  [][\A a \in Slots :
       (Finishes(a) /\ InFlight(att[a].sub) = {a})
         => db'[att[a].sub].processing_status \in {"pending", "completed", "failed"}]_vars

====
